---- MODULE Spec2Model ----
(***************************************************************************)
(* Model of src/src/main.rs: the load graph built from the load records    *)
(* and the per-request search loop of main().                              *)
(*                                                                         *)
(* Representation.                                                         *)
(*  - A coordinate (latitude, longitude) is an abstract point 0..MaxCoord  *)
(*    on one great circle; equal points are equal coordinates.             *)
(*  - A distance (f64 miles) is an integer number of 1/3600 mile, so that  *)
(*    `distance / 55 * 3600` is distance \div 55 whole seconds.            *)
(*    TravelSpec computes the same expression in f64 arithmetic, bit for   *)
(*    bit, for the distances num / 2^exp miles.                            *)
(*  - A time (NaiveDateTime) is an integer number of seconds.              *)
(*  - money_earned (f64 dollars) is an integer: it is a sum of i32 amounts.*)
(*  - h and edge_cost (f64 dollars) are integers in 1/18000 dollar, the    *)
(*    common denominator of a dollar amount and 0.40 * (1/3600 mile).      *)
(*  - Option<T> is a sequence of length 0 (None) or 1 (Some).              *)
(*  - A load record and a request carry the fields main() reads; `input`  *)
(*    is any finite sequence of requests, taken one at a time.             *)
(*  - The locals of a loop iteration are reset when the iteration ends.    *)
(*                                                                         *)
(* Line 203 of main.rs, `if (edge_cost)`, is an unfinished fragment with   *)
(* no body; the model takes the statement of lines 205-209 as written.     *)
(***************************************************************************)
EXTENDS Integers, Sequences, FiniteSets, TLC

\* ---------------------------------------------------------------- bounds
MaxCoord == 1
MaxLoads == 2
MaxTime == 1
MaxAmount == 1
CoordSpacing == 60
\* distances of the f64 travel-time computation: num / 2^exp miles
MaxDistNum == 451
MaxDistExp == 7

\* ------------------------------------------------------ program constants
MILES_TRAVELLED_PER_HOUR == 55
SECONDS_PER_HOUR == 3600
\* FUEL_COST_PER_MILE = 0.40 = FUEL_COST_NUM / FUEL_COST_DEN
FUEL_COST_NUM == 2
FUEL_COST_DEN == 5
\* chrono::naive::MAX_DATETIME and f64::MIN, as values beyond every modelled one
MAX_DATETIME == 1000000000
F64_MIN == -1000000000

\* ------------------------------------------------------------ input sets
Coords == 0..MaxCoord
\* payouts of either sign
Amounts == {0 - MaxAmount, MaxAmount}
\* earnings: sums of the payouts of up to MaxLoads loads
Earnings == (0 - MaxAmount * MaxLoads)..(MaxAmount * MaxLoads)
Times == 0..MaxTime

Abs(x) == IF x < 0 THEN 0 - x ELSE x

\* get_geodesic_distance: great-circle distance, in 1/3600 mile
get_geodesic_distance(start, end) == Abs(end - start) * CoordSpacing

\* ----------------------------------------------------------------- state
VARIABLES
  pc,             \* position in main()
  data,           \* the load records the build loop has consumed; dropped with the loop
  nodes,          \* HashMap coordinate -> Node
  neighbors,      \* HashMap coordinate -> Vec<Edge>
  request,        \* Option: the request of the current iteration
  open,           \* BinaryHeap<Node>, as a sequence in insertion order
  closed,         \* Vec<coordinate>
  current_node,   \* Option: the node bound by `while let Some(current_node)`
  edge_iter,      \* the edges the `for edge in ...` loop has still to visit
  edge,           \* Option: the edge of the last loop iteration
  neighbor_node,  \* Option: the candidate built in the last loop iteration
  outputs,        \* the Output records constructed so far
  hist_pushed,    \* history: nodes pushed at line 207 in the current search
  hist_expansions,\* history: pops per location in the current search, capped at 2
  cmp_a, cmp_b,   \* arguments of Node::cmp / Node::eq
  cmp_out, eq_out,\* their results
  tt_num, tt_exp, \* a distance of tt_num / 2^tt_exp miles
  tt_out          \* Option: the seconds line 196 adds for that distance

vars == <<pc, data, nodes, neighbors, request, open, closed,
          current_node, edge_iter, edge, neighbor_node, outputs,
          hist_pushed, hist_expansions, cmp_a, cmp_b, cmp_out, eq_out,
          tt_num, tt_exp, tt_out>>

searchVars == <<request, open, closed, current_node, edge_iter, edge,
                neighbor_node, hist_pushed, hist_expansions>>
\* the variables of the specifications of the pure functions
cmpVars == <<cmp_a, cmp_b, cmp_out, eq_out, tt_num, tt_exp, tt_out>>

\* ------------------------------------------------------------------ Node
\* Node::new
NodeNew(location) ==
  [location |-> location, parent |-> <<>>, time |-> MAX_DATETIME,
   money_earned |-> 0, distance_covered |-> 0, h |-> F64_MIN]

\* f64::partial_cmp on money_earned; None only for NaN, which a sum of
\* i32 amounts never is
PartialCmp(self, other) ==
  IF self.money_earned < other.money_earned THEN "Less"
  ELSE IF self.money_earned > other.money_earned THEN "Greater"
  ELSE IF self.money_earned = other.money_earned THEN "Equal"
  ELSE "None"

TimeCmp(self, other) ==
  IF self.time < other.time THEN "Less"
  ELSE IF self.time > other.time THEN "Greater"
  ELSE "Equal"

\* impl Ord for Node
Cmp(self, other) ==
  IF PartialCmp(self, other) = "None" THEN TimeCmp(self, other)
  ELSE PartialCmp(self, other)

\* impl PartialEq for Node
NodeEq(self, other) ==
  self.time = other.time /\ self.money_earned = other.money_earned

\* ------------------------------------------------------------ collections
Contains(vec, x) == \E i \in 1..Len(vec) : vec[i] = x

RemoveAt(s, i) == SubSeq(s, 1, i - 1) \o SubSeq(s, i + 1, Len(s))

\* neighbors.get(&location).unwrap_or(&vec![])
OutEdges(location) ==
  IF location \in DOMAIN neighbors THEN neighbors[location] ELSE <<>>

\* map.entry(key).or_insert(value)
OrInsert(map, key, value) ==
  IF key \in DOMAIN map THEN map
  ELSE [k \in DOMAIN map \cup {key} |-> IF k = key THEN value ELSE map[k]]

\* mutant: insert(key, vec![value]) replaces the edges already under the key
OrInsertPush_Replace(map, key, value) ==
  [k \in DOMAIN map \cup {key} |-> IF k = key THEN <<value>> ELSE map[k]]

\* map.entry(key).or_insert(Vec::new()).push(value)
OrInsertPush(map, key, value) ==
  [k \in DOMAIN map \cup {key} |->
     IF k = key
     THEN Append(IF key \in DOMAIN map THEN map[key] ELSE <<>>, value)
     ELSE map[k]]

EmptyMap == [k \in {} |-> 0]

\* --------------------------------------------------------- the search step
\* (distance / MILES_TRAVELLED_PER_HOUR as f64 * 3600.) as i64
TravelSeconds(distance) == distance \div MILES_TRAVELLED_PER_HOUR

\* edge_cost, line 193, in 1/18000 dollar
EdgeCost(current, e) ==
  (current.money_earned + e.amount) * SECONDS_PER_HOUR * FUEL_COST_DEN
    - (current.distance_covered + e.distance) * FUEL_COST_NUM

\* mutant: `parent` is left to `..current_node`
NeighborNode_NoParent(current, e) ==
  [location |-> current.location,
   parent |-> current.parent,
   time |-> current.time + TravelSeconds(e.distance),
   money_earned |-> current.money_earned + e.amount,
   distance_covered |-> current.distance_covered + e.distance,
   h |-> EdgeCost(current, e)]

\* mutant: the `* 3600.` is missing, the duration is whole hours taken as seconds
NeighborNode_Hours(current, e) ==
  [location |-> current.location,
   parent |-> <<current.location>>,
   time |-> current.time
              + e.distance \div (MILES_TRAVELLED_PER_HOUR * SECONDS_PER_HOUR),
   money_earned |-> current.money_earned + e.amount,
   distance_covered |-> current.distance_covered + e.distance,
   h |-> EdgeCost(current, e)]

\* neighbor_node, lines 194-201; location comes from `..current_node`
NeighborNode(current, e) ==
  [location |-> current.location,
   parent |-> <<current.location>>,
   time |-> current.time + TravelSeconds(e.distance),
   money_earned |-> current.money_earned + e.amount,
   distance_covered |-> current.distance_covered + e.distance,
   h |-> EdgeCost(current, e)]

\* mutant: both comparisons admit equality
ShouldPush_OrEqual(cl, e, edge_cost, candidate, req) ==
  /\ ~Contains(cl, e.destination)
  /\ edge_cost >= candidate.h
  /\ candidate.time <= req.max_destination_time

\* mutant: the cost comparison admits equality
ShouldPush_CostOrEqual(cl, e, edge_cost, candidate, req) ==
  /\ ~Contains(cl, e.destination)
  /\ edge_cost >= candidate.h
  /\ candidate.time < req.max_destination_time

\* the conditions of lines 205-206 that guard open.push(neighbor_node)
ShouldPush(cl, e, edge_cost, candidate, req) ==
  /\ ~Contains(cl, e.destination)
  /\ edge_cost > candidate.h
  /\ candidate.time < req.max_destination_time

\* the heap's greatest elements: BinaryHeap::pop returns one of them
Maximal(heap) ==
  {i \in 1..Len(heap) :
     \A j \in 1..Len(heap) : Cmp(heap[j], heap[i]) # "Greater"}

\* ------------------------------------------------------------------ Init
MainInit ==
  /\ pc = "build"
  /\ data = <<>>
  /\ nodes = EmptyMap
  /\ neighbors = EmptyMap
  /\ request = <<>>
  /\ open = <<>>
  /\ closed = <<>>
  /\ current_node = <<>>
  /\ edge_iter = <<>>
  /\ edge = <<>>
  /\ neighbor_node = <<>>
  /\ outputs = <<>>
  /\ hist_pushed = {}
  /\ hist_expansions = [c \in Coords |-> 0]

Init ==
  /\ MainInit
  /\ cmp_a = NodeNew(0)
  /\ cmp_b = NodeNew(0)
  /\ cmp_out = "none"
  /\ eq_out = FALSE
  /\ tt_num = 0
  /\ tt_exp = 0
  /\ tt_out = <<>>

\* --------------------------------------------------------------- actions
\* mutant: lines 171-172 are missing, the destination is not registered
ReadDatum_OriginOnly ==
  /\ pc = "build"
  /\ Len(data) < MaxLoads
  /\ \E origin \in Coords, destination \in Coords, amount \in Amounts :
       /\ data' = Append(data, [load_id |-> Len(data) + 1, origin |-> origin,
                                destination |-> destination, amount |-> amount])
       /\ nodes' = OrInsert(nodes, origin, NodeNew(destination))
       /\ neighbors' = OrInsertPush(neighbors, origin,
            [distance |-> get_geodesic_distance(origin, destination),
             amount |-> amount, destination |-> destination])
  /\ UNCHANGED <<pc, outputs>>
  /\ UNCHANGED searchVars
  /\ UNCHANGED cmpVars

\* one iteration of `for datum in data`, lines 163-176
ReadDatum ==
  /\ pc = "build"
  /\ Len(data) < MaxLoads
  /\ \E origin \in Coords, destination \in Coords, amount \in Amounts :
       /\ data' = Append(data, [load_id |-> Len(data) + 1, origin |-> origin,
                                destination |-> destination, amount |-> amount])
       /\ nodes' = OrInsert(OrInsert(nodes, origin, NodeNew(destination)),
                            destination, NodeNew(origin))
       /\ neighbors' = OrInsertPush(neighbors, origin,
            [distance |-> get_geodesic_distance(origin, destination),
             amount |-> amount, destination |-> destination])
  /\ UNCHANGED <<pc, outputs>>
  /\ UNCHANGED searchVars
  /\ UNCHANGED cmpVars

\* `data` is exhausted: the build loop ends, line 176
EndBuild ==
  /\ pc = "build"
  /\ pc' = "requests"
  /\ data' = <<>>
  /\ UNCHANGED <<nodes, neighbors, outputs>>
  /\ UNCHANGED searchVars
  /\ UNCHANGED cmpVars

\* mutant: line 181 is missing, the start node keeps the time of Node::new
StartRequest_NoStartTime ==
  /\ pc = "requests"
  /\ \E start \in Coords, start_time \in Times, max_destination_time \in Times :
       /\ request' = <<[start |-> start,
                        start_time |-> start_time,
                        max_destination_time |-> max_destination_time]>>
       /\ open' = <<NodeNew(start)>>
  /\ closed' = <<>>
  /\ current_node' = <<>>
  /\ edge_iter' = <<>>
  /\ edge' = <<>>
  /\ neighbor_node' = <<>>
  /\ hist_pushed' = {}
  /\ hist_expansions' = [c \in Coords |-> 0]
  /\ pc' = "pop"
  /\ UNCHANGED <<data, nodes, neighbors, outputs>>
  /\ UNCHANGED cmpVars

\* the head of one iteration of `for request in input`, lines 179-188
StartRequest ==
  /\ pc = "requests"
  /\ \E start \in Coords, start_time \in Times, max_destination_time \in Times :
       /\ request' = <<[start |-> start,
                        start_time |-> start_time,
                        max_destination_time |-> max_destination_time]>>
       /\ open' = <<[NodeNew(start) EXCEPT !.time = start_time]>>
  /\ closed' = <<>>
  /\ current_node' = <<>>
  /\ edge_iter' = <<>>
  /\ edge' = <<>>
  /\ neighbor_node' = <<>>
  /\ hist_pushed' = {}
  /\ hist_expansions' = [c \in Coords |-> 0]
  /\ pc' = "pop"
  /\ UNCHANGED <<data, nodes, neighbors, outputs>>
  /\ UNCHANGED cmpVars

\* mutant: peek() for pop(), the node stays on the heap
Pop_Peek ==
  /\ pc = "pop"
  /\ open # <<>>
  /\ \E i \in Maximal(open) :
       /\ current_node' = <<open[i]>>
       /\ edge_iter' = OutEdges(open[i].location)
       /\ hist_expansions' =
            [hist_expansions EXCEPT ![open[i].location] =
               IF @ < 2 THEN @ + 1 ELSE @]
  /\ edge' = <<>>
  /\ neighbor_node' = <<>>
  /\ pc' = "edges"
  /\ UNCHANGED <<data, nodes, neighbors, request, open, closed,
                 outputs, hist_pushed>>
  /\ UNCHANGED cmpVars

\* `while let Some(current_node) = open.pop()`, line 190, and the lookup of
\* the edges to visit, line 192
Pop ==
  /\ pc = "pop"
  /\ open # <<>>
  /\ \E i \in Maximal(open) :
       /\ current_node' = <<open[i]>>
       /\ open' = RemoveAt(open, i)
       /\ edge_iter' = OutEdges(open[i].location)
       /\ hist_expansions' =
            [hist_expansions EXCEPT ![open[i].location] =
               IF @ < 2 THEN @ + 1 ELSE @]
  /\ edge' = <<>>
  /\ neighbor_node' = <<>>
  /\ pc' = "edges"
  /\ UNCHANGED <<data, nodes, neighbors, request, closed,
                 outputs, hist_pushed>>
  /\ UNCHANGED cmpVars

\* one iteration of `for edge in ...`, lines 192-210
ExamineEdge ==
  /\ pc = "edges"
  /\ edge_iter # <<>>
  /\ LET e == Head(edge_iter)
         current == current_node[1]
         candidate == NeighborNode(current, e)
         push == ShouldPush(closed, e, EdgeCost(current, e), candidate,
                            request[1])
     IN  /\ edge' = <<e>>
         /\ neighbor_node' = <<candidate>>
         /\ open' = IF push THEN Append(open, candidate) ELSE open
         /\ hist_pushed' = IF push THEN hist_pushed \cup {candidate}
                           ELSE hist_pushed
  /\ edge_iter' = Tail(edge_iter)
  /\ UNCHANGED <<pc, data, nodes, neighbors, request, closed,
                 current_node, outputs, hist_expansions>>
  /\ UNCHANGED cmpVars

\* the edges are exhausted: back to the head of the while loop, line 230
EndEdges ==
  /\ pc = "edges"
  /\ edge_iter = <<>>
  /\ pc' = "pop"
  /\ UNCHANGED <<data, nodes, neighbors, request, open, closed,
                 current_node, edge_iter, edge, neighbor_node, outputs,
                 hist_pushed, hist_expansions>>
  /\ UNCHANGED cmpVars

\* mutant: the end of a search leaves the request loop
EndSearch_Exit ==
  /\ pc = "pop"
  /\ open = <<>>
  /\ pc' = "done"
  /\ request' = <<>>
  /\ closed' = <<>>
  /\ current_node' = <<>>
  /\ edge_iter' = <<>>
  /\ edge' = <<>>
  /\ neighbor_node' = <<>>
  /\ hist_pushed' = {}
  /\ hist_expansions' = [c \in Coords |-> 0]
  /\ UNCHANGED <<data, nodes, neighbors, open, outputs>>
  /\ UNCHANGED cmpVars

\* open.pop() returns None: the while loop ends and the request's iteration
\* with it, lines 190 and 231; the iteration's locals are dropped
EndSearch ==
  /\ pc = "pop"
  /\ open = <<>>
  /\ pc' = "requests"
  /\ request' = <<>>
  /\ closed' = <<>>
  /\ current_node' = <<>>
  /\ edge_iter' = <<>>
  /\ edge' = <<>>
  /\ neighbor_node' = <<>>
  /\ hist_pushed' = {}
  /\ hist_expansions' = [c \in Coords |-> 0]
  /\ UNCHANGED <<data, nodes, neighbors, open, outputs>>
  /\ UNCHANGED cmpVars

\* `input` is exhausted: main returns, line 232
EndInput ==
  /\ pc = "requests"
  /\ pc' = "done"
  /\ UNCHANGED <<data, nodes, neighbors, outputs>>
  /\ UNCHANGED searchVars
  /\ UNCHANGED cmpVars

Next ==
  \/ ReadDatum
  \/ EndBuild
  \/ StartRequest
  \/ Pop
  \/ ExamineEdge
  \/ EndEdges
  \/ EndSearch
  \/ EndInput

Spec == Init /\ [][Next]_vars

\* main() runs to completion: every enabled step is eventually taken
FairSpec == Spec /\ WF_vars(Next)

\* ----------------------------------------------- Node::cmp and Node::eq
\* nodes as the frontier can hold them: any earnings, any arrival time
CmpNodes ==
  {[NodeNew(0) EXCEPT !.money_earned = m, !.time = t] :
     m \in Earnings, t \in Times}

CmpInit ==
  /\ MainInit
  /\ cmp_a \in CmpNodes
  /\ cmp_b \in CmpNodes
  /\ cmp_out = "none"
  /\ eq_out = FALSE
  /\ tt_num = 0
  /\ tt_exp = 0
  /\ tt_out = <<>>

\* self.cmp(&other) and self == other
Compare ==
  /\ cmp_out = "none"
  /\ cmp_out' = Cmp(cmp_a, cmp_b)
  /\ eq_out' = NodeEq(cmp_a, cmp_b)
  /\ UNCHANGED <<cmp_a, cmp_b, tt_num, tt_exp, tt_out, pc, data, nodes,
                 neighbors, outputs>>
  /\ UNCHANGED searchVars

CmpNext == Compare

CmpSpec == CmpInit /\ [][CmpNext]_vars

\* ------------------------------------ line 196 in f64 (IEEE 754 binary64)
\* A positive f64 is [digits, exp]: its 53-bit significand as five digits,
\* the first of weight 2^52 and four of 13 bits each, and the value is
\* significand * 2^exp.  Exact intermediate results use the same digits
\* with a first digit of more than one bit.
F64_SIGNIFICAND_BITS == 53
DIGIT_BITS == 13

RECURSIVE Pow2(_)
Pow2(k) == IF k = 0 THEN 1 ELSE 2 * Pow2(k - 1)

\* the number of bits of x
RECURSIVE BitLen(_)
BitLen(x) == IF x = 0 THEN 0 ELSE 1 + BitLen(x \div 2)

\* carries the excess of every digit into the digit above it
Carry(d) ==
  LET B == Pow2(DIGIT_BITS)
      s5 == d[5]
      s4 == d[4] + s5 \div B
      s3 == d[3] + s4 \div B
      s2 == d[2] + s3 \div B
      s1 == d[1] + s2 \div B
  IN  <<s1, s2 % B, s3 % B, s4 % B, s5 % B>>

\* n / d = (num / den) * 2^shift with 1 <= num / den < 2
RECURSIVE Normalize(_, _, _)
Normalize(num, den, shift) ==
  IF num < den THEN Normalize(2 * num, den, shift - 1)
  ELSE IF num >= 2 * den THEN Normalize(num, 2 * den, shift + 1)
  ELSE [num |-> num, den |-> den, shift |-> shift]

\* the f64 quotient (n * 2^exp) / d of positive integers n and d: 53
\* quotient bits by long division, rounded to nearest, ties to even
F64Div(n, exp, d) ==
  LET B == Pow2(DIGIT_BITS)
      nm == Normalize(n, d, 0)
      r0 == nm.num - nm.den
      q1 == (r0 * B) \div nm.den
      r1 == (r0 * B) % nm.den
      q2 == (r1 * B) \div nm.den
      r2 == (r1 * B) % nm.den
      q3 == (r2 * B) \div nm.den
      r3 == (r2 * B) % nm.den
      q4 == (r3 * B) \div nm.den
      r4 == (r3 * B) % nm.den
      up == IF 2 * r4 > nm.den \/ (2 * r4 = nm.den /\ q4 % 2 = 1)
            THEN 1 ELSE 0
  IN  [digits |-> Carry(<<1, q1, q2, q3, q4 + up>>),
       exp |-> nm.shift - (F64_SIGNIFICAND_BITS - 1) + exp]

\* the f64 product x * c of an f64 and an integer 2 <= c < 2^12: the exact
\* product, rounded to 53 bits, to nearest, ties to even
F64Mul(x, c) ==
  LET exact == Carry([i \in 1..5 |-> x.digits[i] * c])
      k == BitLen(exact[1]) - 1
      rem == exact[5] % Pow2(k)
      half == Pow2(k - 1)
      up == IF rem > half \/ (rem = half /\ (exact[5] \div Pow2(k)) % 2 = 1)
            THEN Pow2(k) ELSE 0
  IN  [digits |-> Carry([exact EXCEPT ![5] = @ - rem + up]), exp |-> x.exp]

\* the integer the first n digits spell
RECURSIVE DigitsInt(_, _)
DigitsInt(d, n) ==
  IF n = 0 THEN 0 ELSE DigitsInt(d, n - 1) * Pow2(DIGIT_BITS) + d[n]

\* x as i64: truncation toward zero
F64AsI64(x) ==
  IF x.exp >= 0 THEN DigitsInt(x.digits, 5) * Pow2(x.exp)
  ELSE LET drop == (0 - x.exp) \div DIGIT_BITS
           shift == (0 - x.exp) % DIGIT_BITS
       IN  IF drop >= 5 THEN 0
           ELSE DigitsInt(x.digits, 5 - drop) \div Pow2(shift)

\* (distance / MILES_TRAVELLED_PER_HOUR as f64 * 3600.) as i64 for the
\* distance num / 2^exp miles
TravelSecondsF64(num, exp) ==
  IF num = 0 THEN 0
  ELSE F64AsI64(F64Mul(F64Div(num, 0 - exp, MILES_TRAVELLED_PER_HOUR),
                       SECONDS_PER_HOUR))

\* distances as f64 holds them: dyadic fractions of a mile
TravelInit ==
  /\ MainInit
  /\ cmp_a = NodeNew(0)
  /\ cmp_b = NodeNew(0)
  /\ cmp_out = "none"
  /\ eq_out = FALSE
  /\ tt_num \in 0..MaxDistNum
  /\ tt_exp \in 0..MaxDistExp
  /\ tt_out = <<>>

\* the Duration::seconds argument of line 196
ComputeTravel ==
  /\ tt_out = <<>>
  /\ tt_out' = <<TravelSecondsF64(tt_num, tt_exp)>>
  /\ UNCHANGED <<tt_num, tt_exp, cmp_a, cmp_b, cmp_out, eq_out, pc, data,
                 nodes, neighbors, outputs>>
  /\ UNCHANGED searchVars

TravelNext == ComputeTravel

TravelSpec == TravelInit /\ [][TravelNext]_vars

\* ------------------------------------------------------------- type check
NodeOK(n) ==
  /\ n.location \in Coords
  /\ n.parent \in {<<>>} \cup {<<c>> : c \in Coords}
  /\ n.time \in Int /\ n.money_earned \in Int
  /\ n.distance_covered \in Nat /\ n.h \in Int

TypeOK ==
  /\ pc \in {"build", "requests", "pop", "edges", "done"}
  /\ Len(data) <= MaxLoads
  /\ DOMAIN nodes \subseteq Coords
  /\ DOMAIN neighbors \subseteq Coords
  /\ Len(request) <= 1
  /\ \A i \in 1..Len(open) : NodeOK(open[i])
  /\ \A i \in 1..Len(closed) : closed[i] \in Coords
  /\ Len(current_node) <= 1
  /\ Len(edge) <= 1
  /\ Len(neighbor_node) <= 1
  /\ hist_expansions \in [Coords -> 0..2]

\* ================================================================ claims
\* the while loop is about to end: a node has been expanded, the heap is empty
SearchEnding == pc = "pop" /\ current_node # <<>> /\ open = <<>>

HasEdge(a, b) ==
  /\ a \in DOMAIN neighbors
  /\ \E i \in 1..Len(neighbors[a]) : neighbors[a][i].destination = b

InOpen(n) == \E i \in 1..Len(open) : open[i] = n

\* C1 (as claimed): once an edge has been examined whose destination is not
\* closed and whose candidate arrives strictly before the deadline, the
\* candidate is on the frontier.
C1_PushedWhenFeasible ==
  (pc = "edges" /\ edge # <<>>
     /\ ~Contains(closed, edge[1].destination)
     /\ neighbor_node[1].time < request[1].max_destination_time)
  => InOpen(neighbor_node[1])

\* C2: no node pushed by expanding an edge arrives at or after the deadline,
\* and when the deadline equals the start time no successor is enqueued.
C2_NoLatePush ==
  request # <<>> =>
    /\ \A n \in hist_pushed : n.time < request[1].max_destination_time
    /\ request[1].max_destination_time = request[1].start_time =>
         /\ hist_pushed = {}
         /\ \A i \in 1..Len(open) : open[i].parent = <<>>

\* C2 witness: with the deadline equal to the start time, a zero-distance
\* edge has been examined, its candidate arrives at the deadline, and nothing
\* has been enqueued.
C2_Witness ==
  /\ pc = "edges" /\ edge # <<>>
  /\ request[1].max_destination_time = request[1].start_time
  /\ edge[1].distance = 0
  /\ neighbor_node[1].time = request[1].max_destination_time
  /\ hist_pushed = {}
  /\ open = <<>>

\* C3 (as claimed): when a request's search has ended, a result has been
\* produced for it (the last Output constructed), and it is the empty route
\* only if no successor was ever on the frontier.
C3_ResultExists ==
  [][(pc = "pop" /\ pc' = "requests") =>
       /\ outputs' # <<>>
       /\ outputs'[Len(outputs')].load_ids = <<>> => hist_pushed = {}]_vars

\* C4 (as claimed): after a node has been popped and all edges of its
\* location examined, its location is in the closed set.
C4_ClosedAfterExpansion ==
  (pc = "pop" /\ current_node # <<>>)
  => Contains(closed, current_node[1].location)

\* C5: within one search no coordinate is expanded more than once.
C5_ExpandedOnce ==
  \A c \in Coords : hist_expansions[c] <= 1

\* C5 witness: a search from a coordinate on a cycle A->B, B->A is ending
\* with that coordinate expanded once.
C5_Witness ==
  /\ SearchEnding
  /\ \E b \in Coords :
       /\ b # request[1].start
       /\ HasEdge(request[1].start, b)
       /\ HasEdge(b, request[1].start)
  /\ hist_expansions[request[1].start] = 1
  /\ request[1].max_destination_time > request[1].start_time

\* C6: every search that has started ends with the frontier empty.
C6_SearchTerminates ==
  (pc \in {"pop", "edges"}) ~> (pc = "requests" /\ open = <<>>)

\* C6 witness: a search from a coordinate with a zero-travel-time self-loop,
\* with time left before the deadline, is ending with the frontier empty.
C6_Witness ==
  /\ SearchEnding
  /\ HasEdge(request[1].start, request[1].start)
  /\ request[1].max_destination_time > request[1].start_time

AbsentStart == request # <<>> /\ request[1].start \notin DOMAIN neighbors

\* C7: in a search whose start coordinate is not a key of the adjacency map,
\* no edge is examined, nothing is pushed, only the start node is popped,
\* the frontier is empty after that pop, and the step after the expansion
\* ends the search and returns to the request loop.
C7_AbsentStartIsDeadEnd ==
  [][AbsentStart =>
       /\ edge = <<>> /\ neighbor_node = <<>> /\ edge_iter = <<>>
       /\ hist_pushed = {}
       /\ \A c \in Coords :
            hist_expansions[c] <= (IF c = request[1].start THEN 1 ELSE 0)
       /\ current_node # <<>> => open = <<>>
       /\ (pc = "pop" /\ current_node # <<>>) =>
            (pc' = "requests" /\ open' = <<>>)]_vars

\* C7 witness: with a non-empty graph, a search from a coordinate that is no
\* key is ending after one pop.
C7_Witness ==
  /\ SearchEnding
  /\ AbsentStart
  /\ DOMAIN neighbors # {}
  /\ hist_expansions[request[1].start] = 1

\* C8: the candidate built from popped node p and edge e has
\* time = p.time + travel_time(e), money_earned = p.money_earned + payout(e),
\* distance_covered = p.distance_covered + distance(e), parent = p.location
\* and h = (p.money_earned + payout(e))
\*           - (p.distance_covered + distance(e)) * 0.40.
C8_CandidateFields ==
  edge # <<>> =>
    LET p == current_node[1]
        e == edge[1]
        n == neighbor_node[1]
    IN  /\ n.time = p.time + TravelSeconds(e.distance)
        /\ n.money_earned = p.money_earned + e.amount
        /\ n.distance_covered = p.distance_covered + e.distance
        /\ n.parent = <<p.location>>
        /\ n.h * FUEL_COST_DEN =
             (p.money_earned + e.amount) * SECONDS_PER_HOUR * FUEL_COST_DEN
                * FUEL_COST_DEN
               - (p.distance_covered + e.distance) * FUEL_COST_NUM
                   * FUEL_COST_DEN

\* C8 witness: a candidate has been built from an edge of non-zero length.
C8_Witness ==
  /\ edge # <<>>
  /\ edge[1].distance > 0
  /\ neighbor_node[1].time > current_node[1].time
  /\ neighbor_node[1].parent = <<request[1].start>>

C10_OrderWithTieBreak ==
  cmp_out # "none" =>
    /\ cmp_a.money_earned > cmp_b.money_earned => cmp_out = "Greater"
    /\ (cmp_a.money_earned = cmp_b.money_earned /\ cmp_a.time < cmp_b.time)
         => cmp_out = "Greater"
    /\ (cmp_a.money_earned = cmp_b.money_earned /\ cmp_a.time # cmp_b.time)
         => cmp_out # "Equal"

\* the loads of a list that depart from coordinate k, in list order
LoadsFrom(loads, k) == SelectSeq(loads, LAMBDA l : l.origin = k)

\* C11: while and after the graph is built, the keys of the adjacency map
\* are the origins of the loads read, and the edges under a key are, one per
\* load and in load order, the loads departing from it, each with the load's
\* destination and payout (so loads sharing an origin accumulate and no load
\* puts an edge under its destination); once built, the map never changes.
C11_OneEdgePerLoad ==
  [][/\ pc' = "build" =>
          /\ DOMAIN neighbors' = {data'[i].origin : i \in 1..Len(data')}
          /\ \A k \in DOMAIN neighbors' :
               /\ Len(neighbors'[k]) = Len(LoadsFrom(data', k))
               /\ \A i \in 1..Len(neighbors'[k]) :
                    /\ neighbors'[k][i].destination
                         = LoadsFrom(data', k)[i].destination
                    /\ neighbors'[k][i].amount = LoadsFrom(data', k)[i].amount
     /\ pc # "build" => neighbors' = neighbors]_vars

\* C11 witness: two loads with one origin and different destinations have
\* been read; both edges are under the origin and none under a destination
\* that is no origin.
C11_Witness ==
  /\ pc = "build"
  /\ Len(data) = 2
  /\ data[1].origin = data[2].origin
  /\ data[1].destination # data[2].destination
  /\ Len(neighbors[data[1].origin]) = 2
  /\ DOMAIN neighbors = {data[1].origin}

\* C12: a search changes neither the adjacency map nor the node set, and
\* every request's search starts, whatever was searched before, from a
\* frontier holding only its own start node (its start coordinate, its start
\* time, no earnings, no distance, no parent), an empty closed set and no
\* current node.
C12_SearchIsIndependent ==
  [][/\ pc # "build" => (nodes' = nodes /\ neighbors' = neighbors)
     /\ (pc = "requests" /\ pc' = "pop") =>
          /\ open' = <<[location |-> request'[1].start,
                        parent |-> <<>>,
                        time |-> request'[1].start_time,
                        money_earned |-> 0,
                        distance_covered |-> 0,
                        h |-> F64_MIN]>>
          /\ closed' = <<>>
          /\ current_node' = <<>>
          /\ hist_pushed' = {}]_vars

\* C12 witness: over a non-empty graph a search has just started at a start
\* time other than zero, its start node alone on the frontier.
C12_Witness ==
  /\ pc = "pop"
  /\ current_node = <<>>
  /\ DOMAIN neighbors # {}
  /\ request[1].start_time > 0
  /\ Len(open) = 1
  /\ open[1].location = request[1].start
  /\ open[1].time = request[1].start_time
  /\ closed = <<>>

\* C13: the keys of the node set are the coordinates that occur as the
\* origin or the destination of a load read so far.
C13_NodeKeys ==
  pc = "build" =>
    DOMAIN nodes = {data[i].origin : i \in 1..Len(data)}
                     \cup {data[i].destination : i \in 1..Len(data)}

\* C13 witness: two loads A->B and B->A have been read; each of the two
\* coordinates occurs twice in the loads and once among the keys.
C13_Witness ==
  /\ pc = "build"
  /\ Len(data) = 2
  /\ data[1].origin # data[1].destination
  /\ data[2].origin = data[1].destination
  /\ data[2].destination = data[1].origin
  /\ DOMAIN nodes = {data[1].origin, data[1].destination}
  /\ Cardinality(DOMAIN nodes) = 2

\* C14 (as claimed): the location of the candidate built from an edge is
\* the edge's destination.
C14_LocationIsDestination ==
  edge # <<>> => neighbor_node[1].location = edge[1].destination

\* C15 (as claimed): the seconds added for a distance are
\* floor(distance * 3600 / 55), and zero for a distance below 55/3600 mile.
C15_ExactFloor ==
  tt_out # <<>> =>
    /\ tt_out[1]
         = (tt_num * SECONDS_PER_HOUR)
             \div (MILES_TRAVELLED_PER_HOUR * Pow2(tt_exp))
    /\ tt_num * SECONDS_PER_HOUR < MILES_TRAVELLED_PER_HOUR * Pow2(tt_exp)
         => tt_out[1] = 0

\* C16 (as claimed): once the graph is built, the node stored under a key
\* has that key as its location.
C16_LocationIsKey ==
  pc # "build" => \A k \in DOMAIN nodes : nodes[k].location = k

====
